---- MODULE Spec2Model ----
(***************************************************************************)
(* The MLX90614 SMBus driver of gobot's i2c package, in its two revisions: *)
(*   "pec"  : src/drivers/i2c/mlx90614_driver.go (Write/Read of raw bytes   *)
(*            with a Packet Error Code, WriteBlockData)                    *)
(*   "word" : src/unnamed/part_002 (ReadWordData / WriteWordData)           *)
(* and the CaliPile driver of src/drivers/i2c/calipile_driver.go:           *)
(*   "calipile"                                                            *)
(* and the TMP007 driver in its two revisions:                             *)
(*   "tmp007"    : src/drivers/i2c/tmp007.go                               *)
(*   "tmp007old" : src/unnamed/part_001                                    *)
(* A driver call runs as a sequence of steps, one per bus transaction; the *)
(* transport's answer to each transaction is chosen nondeterministically.  *)
(***************************************************************************)
EXTENDS Integers, Sequences, FiniteSets, TLC

VARIABLES
    revision,    \* the driver that runs: "pec", "word" or "calipile"; TMP007:
                 \* "tmp007" (tmp007.go) or "tmp007old" (its earlier revision)
    address,     \* d.GetAddressOrDefault(mlx90614DefaultSlaveAddress)
    connected,   \* d.connection holds an open connection
    pc,          \* position of the call in progress: "idle", "cmd", "loop",
                 \* "erase", "write", and "done" once it has returned;
                 \* CaliPile: "general", "connect", "enable", "field", "disable",
                 \* "tpobject", "ambientC", and "fatal" once the runtime
                 \* has ended the program; TMP007: "t_cmd", "t_loop",
                 \* "t_config", "t_mask", "t_sleep"
    op,          \* the call in progress, or the last one: [name, a, b]
    numRetries,  \* read(): the retry counter of the loop
    err,         \* read(): err of the last Read / ReadWordData (TRUE = non-nil)
    buf,         \* read(): the 3-byte buffer (revision "pec")
    val16,       \* read(): the word of the last ReadWordData (revision "word");
                 \* WaitOnConversionReady(): s
    config,      \* WriteFilterConfig(): the config word ReadConfig returned
    wdata,       \* writeEEPROM(): the data of the write phase
    ret,         \* what the last call returned: [phase, err, val, bytes]
    bus,         \* the writes this call issued on the bus, in order
    nReads,      \* Read / ReadWordData attempts of the current read()
    fullAt,      \* the attempt that delivered a full error-free response, 0 if none
    tSet,        \* WriteFilterConfig(): the settling time, in microseconds
    part,        \* ReadID(): the loop counter i
    id64,        \* ReadID(): the bytes collected so far
    eeprom,      \* CalipileDriver.eeprom
    field,       \* ReadEEPROM(): the ReadByteData it has come to, 1..12;
                 \* ReadRawTPObject(): the ReadByteData it has come to, 1..3
    val8h,       \* ReadEEPROM(): val8h
    val8s,       \* ReadRawTPObject(): val8a, val8b as far as they are read
    depth,       \* CalculateTPAmbientC(): its frames on the stack
    didrid       \* TMP007Driver.deviceID.didrid

vars == <<revision, address, connected, pc, op, numRetries, err, buf, val16,
          config, wdata, ret, bus, nReads, fullAt, tSet, part, id64,
          eeprom, field, val8h, val8s, depth, didrid>>

\* the locals of the MLX90614 calls, the state of the CaliPile driver
mlxVars == <<numRetries, err, buf, val16, config, wdata, nReads, fullAt, tSet,
             part, id64>>
calipileVars == <<eeprom, field, val8h, val8s, depth>>
tmp007Vars == <<didrid>>
\* the locals of the MLX90614 calls that no TMP007 call has
mlxCallVars == <<config, wdata, tSet, part, id64>>

---------------------------------------------------------------------------
(* Bounds of the model *)

\* how many of ByteSamples the transport answers with and callers pass
NumBytes == 3
\* how many of AddrSamples a driver is configured with
NumAddrs == 2
\* WriteFilterConfig is called with fir, iir in 0..MaxArg
MaxArg == 8
\* the frames of a call nested in itself that the goroutine's stack holds
MaxDepth == 3

ByteSamples == <<0, 90, 255, 183, 128, 1, 190>>
AddrSamples == <<90, 42, 218, 12>>   \* 90 is mlx90614DefaultSlaveAddress

Bytes == {ByteSamples[i] : i \in 1..NumBytes}
\* the bytes the EEPROM registers of the CaliPile answer with
CalBytes == {ByteSamples[1], ByteSamples[3]}
\* the data bytes the ID registers answer with
IdBytes == {ByteSamples[2], ByteSamples[7]}
\* the raw temperatures the conversions are applied to
RawSamples == {0, 1, 13658, 32767, 32768, 65535}
Addrs == {AddrSamples[i] : i \in 1..NumAddrs}

---------------------------------------------------------------------------
(* Program constants *)

mlx90614DefaultSlaveAddress == 90
mlx90614RegisterTObj1 == 7
mlx90614RegisterKE == 36
mlx90614RegisterConfig == 37
mlx90614RegisterAddress == 46
mlx90614RegisterTObj2 == 8
mlx90614RegisterID0 == 60
\* the two further cells write() of revision "word" refuses
ProtectedRegister19 == 25
ProtectedRegister0F == 15
\* read(): numRetries of the two revisions
numRetriesPec == 50
numRetriesWord == 10

calipileDefaultSlaveAddress == 12
tmp007Address == 64
tmp007RegisterVSensor == 0
tmp007RegisterTDie == 1
tmp007RegisterConfig == 2
tmp007RegisterTObj == 3
tmp007RegisterStatus == 4
tmp007RegisterStatusMask == 5
tmp007RegisterDeviceID == 31
tmp007ConfigConvEN == 4096
tmp007MaskCRTEN == 16384
\* initialization(): the device ID it compares with, 0x78
tmp007DeviceID == 120
\* read(): numRetries := 50
numRetriesTmp007 == 50
calipileRegisterTPObject1 == 1
calipileRegisterTPObject2 == 2
calipileRegisterTPObject3 == 3
calipileRegisterEEPROMControl == 31
calipileRegisterEEPROMProtocol == 32
calipileRegisterEEPROMLookup == 41
calipileRegisterEEPROMPTAT251 == 42
calipileRegisterEEPROMPTAT252 == 43
calipileRegisterEEPROMM1 == 44
calipileRegisterEEPROMM2 == 45
calipileRegisterEEPROMU01 == 46
calipileRegisterEEPROMU02 == 47
calipileRegisterEEPROMUOut11 == 48
calipileRegisterEEPROMUOut12 == 49
calipileRegisterEEPROMTObj1 == 50
calipileRegisterEEPROMSlaveAddress == 63

\* the addresses a CaliPile driver is configured with
CalipileAddrs == {calipileDefaultSlaveAddress, AddrSamples[2]}

\* the registers the register-level calls are made with
Regs == {mlx90614RegisterTObj1, mlx90614RegisterKE, mlx90614RegisterConfig,
         mlx90614RegisterAddress, ProtectedRegister19, ProtectedRegister0F}

\* the addresses WriteAddress is called with: both edges of each range check
NewAddrs == {0, 7, 8, 90, 119, 120, 255}

---------------------------------------------------------------------------
(* Go's integer operators on unsigned values *)

RECURSIVE BitAnd(_, _)
BitAnd(a, b) ==
    IF a = 0 \/ b = 0 THEN 0
    ELSE (a % 2) * (b % 2) + 2 * BitAnd(a \div 2, b \div 2)

RECURSIVE BitOr(_, _)
BitOr(a, b) ==
    IF a = 0 THEN b
    ELSE IF b = 0 THEN a
    ELSE (IF a % 2 = 1 \/ b % 2 = 1 THEN 1 ELSE 0) + 2 * BitOr(a \div 2, b \div 2)

RECURSIVE BitXor(_, _)
BitXor(a, b) ==
    IF a = 0 THEN b
    ELSE IF b = 0 THEN a
    ELSE ((a + b) % 2) + 2 * BitXor(a \div 2, b \div 2)

\* uint8(x), uint16(x)
Uint8(x) == x % 256
Uint16(x) == x % 65536

---------------------------------------------------------------------------
(* crc8ccitt: the shift comes first, the test of bit 7 after it *)

RECURSIVE crc8Loop(_, _)
crc8Loop(data, i) ==
    IF i >= 8 THEN data
    ELSE LET shifted == Uint8(data * 2)
             next == IF BitAnd(shifted, 128) # 0 THEN BitXor(shifted, 7) ELSE shifted
         IN crc8Loop(next, i + 1)

\* the eight turns of the loop, for every value of data := inCRC ^ inData
crc8Table == [data \in 0..255 |-> crc8Loop(data, 0)]

crc8ccitt(inCRC, inData) == crc8Table[BitXor(inCRC, inData)]

\* write(): the PEC over slave write address, command, data low, data high
PecWrite(addr, reg, lsb, msb) ==
    crc8ccitt(crc8ccitt(crc8ccitt(crc8ccitt(0, Uint8(addr * 2)), reg), lsb), msb)

\* read(): the PEC over slave write address, command, slave read address, data
PecRead(addr, reg, lsb, msb) ==
    crc8ccitt(crc8ccitt(crc8ccitt(crc8ccitt(crc8ccitt(0, Uint8(addr * 2)), reg),
        Uint8(Uint8(addr * 2) + 1)), lsb), msb)

\* a read() that returns whatever arrived: the comparison left out
PecAcceptsAnything(addr, reg, b) == TRUE

\* read(): pecIncoming == pec
PecAccepts(addr, reg, b) == b[3] = PecRead(addr, reg, b[1], b[2])

\* a readUint16() that takes the first byte as the low one
DecodeUint16LowFirst(b) == BitOr(b[2] * 256, b[1])

\* readUint16(): raw := uint16(b[0])<<8 | uint16(b[1])
DecodeUint16(b) == BitOr(b[1] * 256, b[2])

---------------------------------------------------------------------------
(* The pieces of the handlers that decide what a call does *)

\* a ReadID() that reads the four registers from the last to the first
ReadIDRegisterReversed(p) == mlx90614RegisterID0 + (3 - p)

\* ReadID(): d.read(mlx90614RegisterID0+i, 3)
ReadIDRegister(p) == mlx90614RegisterID0 + p

\* the register a call reads and writes
RegOf(o) ==
    CASE o.name \in {"Start", "ReadAddress", "WriteAddress"} -> mlx90614RegisterAddress
      [] o.name = "WriteFilterConfig" -> mlx90614RegisterConfig
      [] o.name = "ReadTObj1Raw" -> mlx90614RegisterTObj1
      [] o.name = "ReadTObj2Raw" -> mlx90614RegisterTObj2
      [] o.name = "ReadID" -> ReadIDRegister(part)
      [] OTHER -> o.a

\* write() of revision "word": the switch on the protected cells.
\* write() of revision "pec" has no such switch (a TODO names it).
IsProtected(rev, reg) ==
    /\ rev = "word"
    /\ reg \in {mlx90614RegisterKE, ProtectedRegister19, ProtectedRegister0F}

\* a loop that runs once more than its count
InitialRetriesOneMore(rev) == IF rev = "pec" THEN numRetriesPec + 1 ELSE numRetriesWord + 1

\* read(): numRetries := 50 (10 in revision "word")
InitialRetries(rev) == IF rev = "pec" THEN numRetriesPec ELSE numRetriesWord

\* a loop that leaves on the wrong condition: err != nil
BreakLoopOnError(bytesRead, n, e) == bytesRead = n /\ e

\* read(): if bytesRead == n && err == nil { break }
BreakLoop(bytesRead, n, e) == bytesRead = n /\ ~e

\* read() of revision "word": if err == nil { break }
BreakLoopWord(e) == ~e

\* a writeEEPROM() that goes on to the write whatever the erase did
AfterEraseIgnoringFailure(ok) == "write"

\* writeEEPROM(): the erase failed, return; else go on to the write
AfterErase(ok) == IF ok THEN "write" ELSE "done"

\* an initialization() that compares with the default, not the configured address
AddressMismatchWithDefault(addr8, addrExpected) == addr8 # mlx90614DefaultSlaveAddress

\* initialization(): int(addr8) != addrExpected
AddressMismatch(addr8, addrExpected) == addr8 # addrExpected

\* WriteAddress(): newAddress >= 0x78 || newAddress <= 0x07
AddressReserved(newAddress) == newAddress >= 120 \/ newAddress <= 7

\* a WriteFilterConfig() without its first guard
FilterOutOfRangeNoFloor(fir, iir) == fir > 7 \/ iir > 7

\* WriteFilterConfig(): fir < 0x04, then fir > 0x07 || iir > 0x07
FilterOutOfRange(fir, iir) == fir < 4 \/ fir > 7 \/ iir > 7

\* WriteAddress() of revision "pec": tempAddr16 &= 0xFF00; tempAddr16 |= newAddress
NewAddressWord(tempAddr16, newAddress) ==
    BitOr(BitAnd(tempAddr16, 65280), newAddress)

\* a WriteFilterConfig() that builds the cell from the two fields alone
NewConfigFieldsOnly(rev, cfg, fir, iir) == BitOr(Uint16(fir * 256), iir)

\* WriteFilterConfig(): the new cell content.
\* Revision "pec" ORs the fields in; revision "word" clears each field first.
NewConfig(rev, cfg, fir, iir) ==
    IF rev = "pec"
    THEN BitOr(BitOr(cfg, Uint16(fir * 256)), iir)
    ELSE BitOr(BitAnd(BitOr(BitAnd(cfg, 63743), Uint16(fir * 256)), 65528), iir)

\* a ReadTObj1Raw() that never looks at the flag
ErrorFlagSetNever(rawObj) == FALSE

\* ReadTObj1Raw(), ReadTObj2Raw(): (rawObj & 0x8000) != 0
ErrorFlagSet(rawObj) == BitAnd(rawObj, 32768) # 0

\* firSettingsMap[fir] and iirSettingsMap[iir], the first in thousandths; a key
\* the map does not hold gives 0
firSettingsMap(fir) ==
    CASE fir = 4 -> 5184
      [] fir = 5 -> 9280
      [] fir = 6 -> 17472
      [] fir = 7 -> 33856
      [] OTHER -> 0

iirSettingsMap(iir) ==
    CASE iir \in 0..3 -> 10
      [] iir = 4 -> 1
      [] iir = 5 -> 4
      [] iir = 6 -> 8
      [] iir = 7 -> 9
      [] OTHER -> 0

\* dual: bit 6 of the config word
Dual(cfg) == IF BitAnd(cfg, 64) # 0 THEN 1 ELSE 0

\* 9.719 + iirS*(firS+5.26) + iirS*(firS+12.542) + dual*iirS*(firS+12.542),
\* in microseconds (thousandths of the millisecond the code counts in)
SettlingTime(dual, firS, iirS) ==
    9719 + iirS * (firS + 5260) + iirS * (firS + 12542) + dual * iirS * (firS + 12542)

\* SettlingTimeFromConfig(config) of revision "word": fir and iir are the
\* fields of the word that was read
SettlingTimeFromConfig(cfg) ==
    SettlingTime(Dual(cfg), firSettingsMap(BitAnd(cfg, 1792) \div 256),
                 iirSettingsMap(BitAnd(cfg, 7)))

\* WriteFilterConfig(): tSet. Revision "pec" takes fir and iir from its
\* arguments, revision "word" calls SettlingTimeFromConfig on the word read.
SettlingTimeOf(rev, cfg, fir, iir) ==
    IF rev = "pec"
    THEN SettlingTime(Dual(cfg), firSettingsMap(fir), iirSettingsMap(iir))
    ELSE SettlingTimeFromConfig(cfg)

\* int16(raw)
Int16(raw) == IF raw >= 32768 THEN raw - 65536 ELSE raw

\* The conversions, in units of 1/500 degree (0.02 is 10 units, 273.15 is
\* 136575, 32 is 16000), which makes each of them exact.
\* ConvertRawTempToDegK: float64(raw) * 0.02
ConvertRawTempToDegK(rev, raw) == raw * 10

\* ConvertRawTempToDegC: float64(raw)*0.02 - 273.15;
\* revision "word": float64(int16(raw))*0.02 - 273.15
ConvertRawTempToDegC(rev, raw) ==
    (IF rev = "pec" THEN raw ELSE Int16(raw)) * 10 - 136575

\* ConvertRawTempToDegF: (float64(raw)*0.02-273.15)*9/5 + 32,
\* with int16(raw) for raw in revision "word"
ConvertRawTempToDegF(rev, raw) ==
    (((IF rev = "pec" THEN raw ELSE Int16(raw)) * 10 - 136575) * 9) \div 5 + 16000

Ret(phase, e, val, bytes) == [phase |-> phase, err |-> e, val |-> val, bytes |-> bytes]
NoRet == Ret("none", "none", 0, <<>>)

BusWriteRec(kind, reg, data, block, ok) ==
    [kind |-> kind, reg |-> reg, data |-> data, block |-> block, ok |-> ok]

---------------------------------------------------------------------------
\* eeprom: &eeprom{}
NoEeprom ==
    [protocol |-> 0, lookup |-> 0, ptat25 |-> 0, m |-> 0, u0 |-> 0, uOut1 |-> 0,
     tObj1 |-> 0, slaveAddress |-> 0]

Init ==
    /\ \/ revision \in {"pec", "word"} /\ address \in Addrs
       \/ revision = "calipile" /\ address \in CalipileAddrs
       \/ revision \in {"tmp007", "tmp007old"} /\ address = tmp007Address
    /\ connected = FALSE
    /\ pc = "idle"
    /\ op = [name |-> "none", a |-> 0, b |-> 0]
    /\ numRetries = 0
    /\ err = FALSE
    /\ buf = <<0, 0, 0>>
    /\ val16 = 0
    /\ config = 0
    /\ wdata = 0
    /\ ret = NoRet
    /\ bus = <<>>
    /\ nReads = 0
    /\ fullAt = 0
    /\ tSet = 0
    /\ part = 0
    /\ id64 = <<>>
    /\ eeprom = NoEeprom
    /\ field = 0
    /\ val8h = 0
    /\ val8s = <<>>
    /\ depth = 0
    /\ didrid = 0

\* a call begins: its locals are fresh
Enter(name, a, b) ==
    /\ pc = "idle"
    /\ revision \in {"pec", "word"}
    /\ op' = [name |-> name, a |-> a, b |-> b]
    /\ bus' = <<>>
    /\ config' = 0
    /\ tSet' = 0
    /\ part' = 0
    /\ id64' = <<>>
    /\ UNCHANGED <<revision, address>>
    /\ UNCHANGED calipileVars
    /\ UNCHANGED tmp007Vars

\* read() is entered: revision "pec" sends the command first
EnterRead ==
    /\ pc' = IF revision = "pec" THEN "cmd" ELSE "loop"
    /\ numRetries' = IF revision = "pec" THEN 0 ELSE InitialRetries(revision)
    /\ err' = FALSE
    /\ buf' = <<0, 0, 0>>
    /\ val16' = 0
    /\ nReads' = 0
    /\ fullAt' = 0

NoRead ==
    /\ numRetries' = 0
    /\ err' = FALSE
    /\ buf' = <<0, 0, 0>>
    /\ val16' = 0
    /\ nReads' = 0
    /\ fullAt' = 0

\* read() of revision "pec" has returned into a caller that works on: its
\* locals are gone, the slice it returned is what ReadID() takes its bytes from
ReadReturned(b) ==
    /\ numRetries' = 0
    /\ err' = FALSE
    /\ buf' = IF op.name = "ReadID" THEN b ELSE <<0, 0, 0>>
    /\ val16' = 0
    /\ nReads' = 0
    /\ fullAt' = 0

\* the call returns r
Return(r) ==
    /\ ret' = r
    /\ pc' = "done"

\* read() has returned to its caller with error rerr ("none": with the bytes b,
\* which readUint16 decodes, or the word raw of revision "word")
AfterRead(rerr, b, raw) ==
  /\ tSet' = IF op.name = "WriteFilterConfig" /\ rerr = "none"
             THEN SettlingTimeOf(revision, raw, op.a, op.b) ELSE tSet
  /\ part' = IF op.name = "ReadID" /\ rerr = "none" THEN part + 1 ELSE part
  /\ id64' = IF op.name = "ReadID" /\ rerr = "none"
             THEN id64 \o <<b[1], b[2]>> ELSE id64
  /\ CASE op.name = "read" ->
            /\ Return(Ret("read", rerr, raw, b))
            /\ UNCHANGED <<config, wdata>>
      [] op.name = "readUint16" ->
            /\ Return(Ret("read", rerr, raw, <<>>))
            /\ UNCHANGED <<config, wdata>>
      [] op.name = "ReadAddress" ->
            /\ Return(Ret("read", rerr, Uint8(raw), <<>>))
            /\ UNCHANGED <<config, wdata>>
      [] op.name \in {"ReadTObj1Raw", "ReadTObj2Raw"} ->
            /\ IF rerr # "none" THEN Return(Ret("read", rerr, 0, <<>>))
               ELSE IF ErrorFlagSet(raw)
                    THEN Return(Ret("flag", "flag", 0, <<>>))
                    ELSE Return(Ret("none", "none", raw, <<>>))
            /\ UNCHANGED <<config, wdata>>
      [] op.name = "ReadID" ->
            /\ IF rerr # "none" THEN Return(Ret("read", rerr, part, id64))
               ELSE IF part + 1 < 4
                    THEN pc' = "cmd" /\ UNCHANGED ret
                    ELSE Return(Ret("none", "none", 0, id64 \o <<b[1], b[2]>>))
            /\ UNCHANGED <<config, wdata>>
      [] op.name = "Start" ->
            /\ IF rerr # "none" THEN Return(Ret("read", rerr, 0, <<>>))
               ELSE IF AddressMismatch(Uint8(raw), address)
                    THEN Return(Ret("check", "mismatch", 0, <<>>))
                    ELSE Return(Ret("none", "none", 0, <<>>))
            /\ UNCHANGED <<config, wdata>>
      [] op.name = "WriteAddress" ->
            IF rerr # "none"
            THEN /\ Return(Ret("read", rerr, 0, <<>>))
                 /\ UNCHANGED <<config, wdata>>
            ELSE /\ wdata' = NewAddressWord(raw, op.a)
                 /\ pc' = "erase"
                 /\ UNCHANGED <<config, ret>>
      [] op.name = "WriteFilterConfig" ->
            IF rerr # "none"
            THEN /\ Return(Ret("read", rerr, 0, <<>>))
                 /\ UNCHANGED <<config, wdata>>
            ELSE /\ config' = raw
                 /\ wdata' = NewConfig(revision, raw, op.a, op.b)
                 /\ pc' = "erase"
                 /\ UNCHANGED ret

---------------------------------------------------------------------------
(* The calls *)

\* Start(): GetConnection, then initialization() reads the address back
Start ==
    /\ Enter("Start", 0, 0)
    /\ wdata' = 0
    /\ \E ok \in BOOLEAN :
          /\ connected' = ok
          /\ IF ok THEN EnterRead /\ ret' = NoRet
             ELSE NoRead /\ Return(Ret("connect", "connect", 0, <<>>))

\* read(address, 3) of revision "pec", read(address) of revision "word"
ReadCall ==
    /\ connected
    /\ \E reg \in Regs : Enter("read", reg, 0)
    /\ EnterRead
    /\ ret' = NoRet
    /\ wdata' = 0
    /\ UNCHANGED connected

\* readUint16(address), which revision "word" does not have
ReadUint16Call ==
    /\ connected
    /\ revision = "pec"
    /\ \E reg \in Regs : Enter("readUint16", reg, 0)
    /\ EnterRead
    /\ ret' = NoRet
    /\ wdata' = 0
    /\ UNCHANGED connected

\* ReadAddress()
ReadAddressCall ==
    /\ connected
    /\ Enter("ReadAddress", 0, 0)
    /\ EnterRead
    /\ ret' = NoRet
    /\ wdata' = 0
    /\ UNCHANGED connected

\* ReadTObj1Raw(), ReadTObj2Raw()
ReadTObjRawCall ==
    /\ connected
    /\ \E name \in {"ReadTObj1Raw", "ReadTObj2Raw"} : Enter(name, 0, 0)
    /\ EnterRead
    /\ ret' = NoRet
    /\ wdata' = 0
    /\ UNCHANGED connected

\* ReadID() of revision "pec", which returns the bytes it collects
ReadIDCall ==
    /\ connected
    /\ revision = "pec"
    /\ Enter("ReadID", 0, 0)
    /\ EnterRead
    /\ ret' = NoRet
    /\ wdata' = 0
    /\ UNCHANGED connected

\* ConvertRawTempToDegK(raw), ConvertRawTempToDegC(raw), ConvertRawTempToDegF(raw)
ConvertRawTempCall ==
    /\ \E raw \in RawSamples :
          /\ Enter("ConvertRawTemp", raw, 0)
          /\ Return(Ret("none", "none", 0,
                        <<ConvertRawTempToDegK(revision, raw),
                          ConvertRawTempToDegC(revision, raw),
                          ConvertRawTempToDegF(revision, raw)>>))
    /\ NoRead
    /\ wdata' = 0
    /\ UNCHANGED connected

\* write(address, data)
WriteCall ==
    /\ connected
    /\ \E reg \in Regs, lsb \in Bytes, msb \in Bytes :
          /\ Enter("write", reg, msb * 256 + lsb)
          /\ wdata' = msb * 256 + lsb
    /\ NoRead
    /\ pc' = "write"
    /\ ret' = NoRet
    /\ UNCHANGED connected

\* writeEEPROM(address, data)
WriteEEPROMCall ==
    /\ connected
    /\ \E reg \in Regs, lsb \in Bytes, msb \in Bytes :
          /\ Enter("writeEEPROM", reg, msb * 256 + lsb)
          /\ wdata' = msb * 256 + lsb
    /\ NoRead
    /\ pc' = "erase"
    /\ ret' = NoRet
    /\ UNCHANGED connected

\* WriteAddress(newAddress): the range check, then revision "pec" reads the
\* cell and keeps its high byte, revision "word" writes newAddress as it is
WriteAddressCall ==
    /\ connected
    /\ \E newAddress \in NewAddrs :
          /\ Enter("WriteAddress", newAddress, 0)
          /\ IF AddressReserved(newAddress)
             THEN NoRead /\ Return(Ret("range", "range", 0, <<>>)) /\ wdata' = 0
             ELSE IF revision = "pec"
                  THEN EnterRead /\ ret' = NoRet /\ wdata' = 0
                  ELSE NoRead /\ pc' = "erase" /\ ret' = NoRet /\ wdata' = newAddress
    /\ UNCHANGED connected

\* WriteFilterConfig(fir, iir): the range checks, then ReadConfig()
WriteFilterConfigCall ==
    /\ connected
    /\ \E fir \in 0..MaxArg, iir \in 0..MaxArg :
          /\ Enter("WriteFilterConfig", fir, iir)
          /\ IF FilterOutOfRange(fir, iir)
             THEN NoRead /\ Return(Ret("range", "range", 0, <<>>))
             ELSE EnterRead /\ ret' = NoRet
    /\ wdata' = 0
    /\ UNCHANGED connected

---------------------------------------------------------------------------
(* The steps of a call, one per bus transaction *)

\* read() of revision "pec": d.connection.Write([]byte{address})
SendCommand ==
    /\ pc = "cmd"
    /\ \E ok \in BOOLEAN :
          /\ bus' = Append(bus, BusWriteRec("Write", RegOf(op), 0, <<RegOf(op)>>, ok))
          /\ IF ok
             THEN /\ pc' = "loop"
                  /\ buf' = <<0, 0, 0>>
                  /\ numRetries' = InitialRetries(revision)
                  /\ UNCHANGED <<ret, config, wdata, tSet, part, id64>>
             ELSE /\ AfterRead("cmd", <<>>, 0)
                  /\ UNCHANGED <<numRetries, buf>>
    /\ UNCHANGED <<revision, address, connected, op, err, val16, nReads, fullAt>>
    /\ UNCHANGED calipileVars
    /\ UNCHANGED tmp007Vars

\* what one d.connection.Read(buf) can do: fail (nothing read), read nothing
\* without an error, or deliver 3 bytes, the third the valid PEC or not
ReadOutcomes ==
    LET data == IF op.name = "ReadID" THEN IdBytes ELSE Bytes
    IN {[n |-> 0, e |-> TRUE, b |-> <<>>], [n |-> 0, e |-> FALSE, b |-> <<>>]}
       \cup {[n |-> 3, e |-> FALSE,
              b |-> <<b0, b1, Uint8(PecRead(address, RegOf(op), b0, b1) + d)>>] :
               b0 \in data, b1 \in data, d \in {0, 1}}

\* copy(buf, b)
CopyInto(old, b) == [i \in 1..3 |-> IF i <= Len(b) THEN b[i] ELSE old[i]]

\* read() of revision "pec" after its loop: err, then the PEC
ReadError(e, b) ==
    IF e THEN "transport"
    ELSE IF PecAccepts(address, RegOf(op), b) THEN "none" ELSE "pec"

\* read() returns into a caller that works on: into WriteAddress() and
\* WriteFilterConfig(), which go on to writeEEPROM() after a read without error,
\* and into the loop of ReadID(). The locals of that read() are gone.
GoesOn(rerr) ==
    \/ rerr = "none" /\ op.name \in {"WriteAddress", "WriteFilterConfig"}
    \/ op.name = "ReadID"

\* read() of revision "pec": one turn of the retry loop
ReadAttempt ==
    /\ pc = "loop"
    /\ revision = "pec"
    /\ numRetries > 0
    /\ \E o \in ReadOutcomes :
          LET nb == CopyInto(buf, o.b)
              brk == BreakLoop(o.n, 3, o.e)
              nr == IF brk THEN numRetries ELSE numRetries - 1
              exit == brk \/ nr = 0
              rerr == ReadError(o.e, nb)
          IN /\ IF exit /\ GoesOn(rerr)
                THEN ReadReturned(nb)
                ELSE /\ nReads' = nReads + 1
                     /\ fullAt' = IF o.n = 3 /\ ~o.e /\ fullAt = 0
                                  THEN nReads + 1 ELSE fullAt
                     /\ numRetries' = nr
                     /\ err' = o.e
                     /\ buf' = nb
                     /\ UNCHANGED val16
             /\ IF exit
                THEN IF rerr = "none" THEN AfterRead("none", nb, DecodeUint16(nb))
                                      ELSE AfterRead(rerr, <<>>, 0)
                ELSE UNCHANGED <<pc, ret, config, wdata, tSet, part, id64>>
    /\ UNCHANGED <<revision, address, connected, op, bus>>
    /\ UNCHANGED calipileVars
    /\ UNCHANGED tmp007Vars

\* read() of revision "word": one turn of the retry loop around ReadWordData
ReadWordAttempt ==
    /\ pc = "loop"
    /\ revision = "word"
    /\ numRetries > 0
    /\ \E e \in BOOLEAN, lo \in Bytes, hi \in Bytes :
          LET v == IF e THEN 0 ELSE hi * 256 + lo
              brk == BreakLoopWord(e)
              nr == IF brk THEN numRetries ELSE numRetries - 1
              exit == brk \/ nr = 0
              rerr == IF e THEN "transport" ELSE "none"
          IN /\ IF exit /\ GoesOn(rerr)
                THEN NoRead
                ELSE /\ nReads' = nReads + 1
                     /\ fullAt' = IF ~e /\ fullAt = 0 THEN nReads + 1 ELSE fullAt
                     /\ numRetries' = nr
                     /\ err' = e
                     /\ val16' = v
                     /\ UNCHANGED buf
             /\ IF exit
                THEN AfterRead(rerr, <<>>, v)
                ELSE UNCHANGED <<pc, ret, config, wdata, tSet, part, id64>>
    /\ UNCHANGED <<revision, address, connected, op, bus>>
    /\ UNCHANGED calipileVars
    /\ UNCHANGED tmp007Vars

\* write(address, data): the erase and the write of writeEEPROM(), or write()
\* called on its own
BusWrite ==
    /\ pc \in {"erase", "write"}
    /\ LET reg == RegOf(op)
           data == IF pc = "erase" THEN 0 ELSE wdata
           lsb == BitAnd(data, 255)
           msb == data \div 256
           phase == IF op.name = "write" THEN "bus" ELSE pc
           val == IF op.name = "WriteFilterConfig" THEN tSet ELSE 0
       IN IF IsProtected(revision, reg)
          THEN /\ Return(Ret(phase, "protected", val, <<>>))
               /\ UNCHANGED bus
          ELSE \E ok \in BOOLEAN :
                 /\ bus' = Append(bus,
                        IF revision = "pec"
                        THEN BusWriteRec("WriteBlockData", reg, data,
                                 <<reg, lsb, msb, PecWrite(address, reg, lsb, msb)>>, ok)
                        ELSE BusWriteRec("WriteWordData", reg, data, <<>>, ok))
                 /\ IF pc = "erase"
                    THEN IF AfterErase(ok) = "write"
                         THEN pc' = "write" /\ UNCHANGED ret
                         ELSE Return(Ret("erase", "transport", val, <<>>))
                    ELSE IF ok
                         THEN Return(Ret("none", "none", val, <<>>))
                         ELSE Return(Ret(phase, "transport", val, <<>>))
    /\ UNCHANGED <<revision, address, connected, op, numRetries, err, buf, val16,
                   config, wdata, nReads, fullAt, tSet, part, id64>>
    /\ UNCHANGED calipileVars
    /\ UNCHANGED tmp007Vars

---------------------------------------------------------------------------
(* The CaliPile driver *)

\* ReadEEPROM(): the registers it reads, in the order of its ReadByteData
\* calls, and the name its error gives to each
EepromReads ==
    << [reg |-> calipileRegisterEEPROMProtocol,     name |-> "PROTOCOL"],
       [reg |-> calipileRegisterEEPROMSlaveAddress, name |-> "SLAVE ADD"],
       [reg |-> calipileRegisterEEPROMLookup,       name |-> "LOOKUP#"],
       [reg |-> calipileRegisterEEPROMPTAT251,      name |-> "PTAT25"],
       [reg |-> calipileRegisterEEPROMPTAT252,      name |-> "PTAT25"],
       [reg |-> calipileRegisterEEPROMM1,           name |-> "M"],
       [reg |-> calipileRegisterEEPROMM2,           name |-> "M"],
       [reg |-> calipileRegisterEEPROMU01,          name |-> "U0"],
       [reg |-> calipileRegisterEEPROMU02,          name |-> "U0"],
       [reg |-> calipileRegisterEEPROMUOut11,       name |-> "Uout1"],
       [reg |-> calipileRegisterEEPROMUOut12,       name |-> "Uout1"],
       [reg |-> calipileRegisterEEPROMTObj1,        name |-> "Tobj1"] >>

\* a Start() that opens the device connection whatever the general call did
AfterGeneralCallIgnoringFailure(ok) == "connect"

\* Start(): the general call failed, return; else open the device connection
AfterGeneralCall(ok) == IF ok THEN "connect" ELSE "done"

\* a ReadEEPROM() that reads on after a failed read
AfterFieldReadIgnoringFailure(ok, k) == IF k < Len(EepromReads) THEN "field" ELSE "disable"

\* ReadEEPROM(): a failed ReadByteData returns; else the next read, and the
\* disable write after the last
AfterFieldRead(ok, k) ==
    IF ~ok THEN "done"
    ELSE IF k < Len(EepromReads) THEN "field" ELSE "disable"

\* ReadEEPROM(): what the k-th ReadByteData, having delivered val8, stores
StoreField(e, k, h, val8) ==
    CASE k = 1 -> [e EXCEPT !.protocol = val8]
      [] k = 2 -> [e EXCEPT !.slaveAddress = BitAnd(val8, 127)]
      [] k = 3 -> [e EXCEPT !.lookup = val8]
      [] k = 5 -> [e EXCEPT !.ptat25 = BitOr(h * 256, val8)]
      [] k = 7 -> [e EXCEPT !.m = BitOr(h * 256, val8) \div 100]
      [] k = 9 -> [e EXCEPT !.u0 = Uint16(BitOr(h * 256, val8) + 32768)]
      [] k = 11 -> [e EXCEPT !.uOut1 = BitOr(h * 256, val8) * 2]
      [] k = 12 -> [e EXCEPT !.tObj1 = val8]
      [] OTHER -> e

\* what a ReadByteData of the k-th register can deliver
FieldAnswers(k) ==
    CASE k = 2 -> {address, Uint8(address + 128), ByteSamples[1]}
      [] k \in {5, 7} -> {ByteSamples[2]}
      [] OTHER -> CalBytes

\* Start(): d.connector.GetConnection(0x00, bus)
CalipileStart ==
    /\ pc = "idle"
    /\ revision = "calipile"
    /\ ~connected
    /\ op' = [name |-> "CalipileStart", a |-> 0, b |-> 0]
    /\ \E ok \in BOOLEAN :
          /\ bus' = <<BusWriteRec("GetConnection", 0, 0, <<>>, ok)>>
          /\ IF ok THEN pc' = "general" /\ ret' = NoRet
             ELSE Return(Ret("connect00", "connect", 0, <<>>))
    /\ UNCHANGED <<revision, address, connected>>
    /\ UNCHANGED mlxVars
    /\ UNCHANGED calipileVars
    /\ UNCHANGED tmp007Vars

\* Start(): tmpConnection.WriteByteData(0x04, 0x00), register first
GeneralCall ==
    /\ pc = "general"
    /\ \E ok \in BOOLEAN :
          /\ bus' = Append(bus, BusWriteRec("WriteByteData", 4, 0, <<>>, ok))
          /\ IF AfterGeneralCall(ok) = "connect"
             THEN pc' = "connect" /\ UNCHANGED ret
             ELSE Return(Ret("general", "transport", 0, <<>>))
    /\ UNCHANGED <<revision, address, connected, op>>
    /\ UNCHANGED mlxVars
    /\ UNCHANGED calipileVars
    /\ UNCHANGED tmp007Vars

\* Start(): d.connection, err = d.connector.GetConnection(address, bus)
OpenConnection ==
    /\ pc = "connect"
    /\ \E ok \in BOOLEAN :
          /\ bus' = Append(bus, BusWriteRec("GetConnection", address, 0, <<>>, ok))
          /\ connected' = ok
          /\ IF ok THEN pc' = "enable" /\ UNCHANGED ret
             ELSE Return(Ret("connect", "connect", 0, <<>>))
    /\ UNCHANGED <<revision, address, op>>
    /\ UNCHANGED mlxVars
    /\ UNCHANGED calipileVars
    /\ UNCHANGED tmp007Vars

\* ReadEEPROM(): d.connection.WriteByteData(calipileRegisterEEPROMControl, 0x80),
\* whose error is not looked at
EnableEEPROM ==
    /\ pc = "enable"
    /\ \E ok \in BOOLEAN :
          bus' = Append(bus, BusWriteRec("WriteByteData",
                                calipileRegisterEEPROMControl, 128, <<>>, ok))
    /\ pc' = "field"
    /\ field' = 1
    /\ UNCHANGED <<revision, address, connected, op, ret, eeprom, val8h>>
    /\ UNCHANGED <<val8s, depth>>
    /\ UNCHANGED mlxVars
    /\ UNCHANGED tmp007Vars

\* initialization() after ReadEEPROM() returned nil: the address check
AfterReadEEPROM(e) ==
    IF AddressMismatch(e.slaveAddress, Uint8(address))
    THEN Return(Ret("check", "mismatch", 0, <<>>))
    ELSE Return(Ret("none", "none", 0, <<>>))

\* ReadEEPROM(): one ReadByteData
ReadField ==
    /\ pc = "field"
    /\ \E ok \in BOOLEAN, val8 \in FieldAnswers(field) :
          LET reg == EepromReads[field].reg
              v == IF ok THEN val8 ELSE 0
              next == AfterFieldRead(ok, field)
          IN /\ bus' = Append(bus, BusWriteRec("ReadByteData", reg, v, <<>>, ok))
             /\ IF next = "done"
                THEN /\ Return(Ret("ReadEEPROM", EepromReads[field].name, 0, <<>>))
                     /\ UNCHANGED <<eeprom, field, val8h>>
                ELSE /\ eeprom' = StoreField(eeprom, field, val8h, v)
                     /\ val8h' = IF field \in {4, 6, 8, 10} THEN v ELSE val8h
                     /\ field' = IF next = "field" THEN field + 1 ELSE field
                     /\ pc' = next
                     /\ UNCHANGED ret
    /\ UNCHANGED <<revision, address, connected, op>>
    /\ UNCHANGED <<val8s, depth>>
    /\ UNCHANGED mlxVars
    /\ UNCHANGED tmp007Vars

\* ReadEEPROM(): d.connection.WriteByteData(calipileRegisterEEPROMControl, 0x00),
\* whose error is not looked at; return err, the nil of the last read
DisableEEPROM ==
    /\ pc = "disable"
    /\ \E ok \in BOOLEAN :
          bus' = Append(bus, BusWriteRec("WriteByteData",
                                calipileRegisterEEPROMControl, 0, <<>>, ok))
    /\ AfterReadEEPROM(eeprom)
    /\ UNCHANGED <<revision, address, connected, op>>
    /\ UNCHANGED mlxVars
    /\ UNCHANGED calipileVars
    /\ UNCHANGED tmp007Vars

\* ReadRawTPObject(): the registers of its three ReadByteData, and their names
TPObjectReads ==
    << [reg |-> calipileRegisterTPObject1, name |-> "TPObject1"],
       [reg |-> calipileRegisterTPObject2, name |-> "TPObject2"],
       [reg |-> calipileRegisterTPObject3, name |-> "TPObject3"] >>

\* a ReadRawTPObject() that keeps the low seven bits of the third register
TPObjectRawLowSeven(val8a, val8b, val8c) ==
    BitOr(val8a * 256, val8b) * 2 + (BitAnd(val8c, 127) * 256) \div 32768

\* ReadRawTPObject(): ((uint32(val8a) << 24) | (uint32(val8b) << 16) |
\* (uint32(val8c&0x80) << 8)) >> 15. The 32-bit word is held as its two
\* 16-bit halves: val8a, val8b make up the high half, (val8c&0x80) << 8 is
\* the low half, and the shift by 15 keeps the high half and the top bit of
\* the low half
TPObjectRaw(val8a, val8b, val8c) ==
    BitOr(val8a * 256, val8b) * 2 + (BitAnd(val8c, 128) * 256) \div 32768

\* what a ReadByteData of the k-th TPObject register can deliver
TPObjectAnswers(k) ==
    IF k = 3 THEN CalBytes \cup {ByteSamples[5], ByteSamples[6]} ELSE CalBytes

\* ReadRawTPObject() is called on a started driver
ReadRawTPObjectCall ==
    /\ pc = "idle"
    /\ revision = "calipile"
    /\ connected
    /\ op' = [name |-> "ReadRawTPObject", a |-> 0, b |-> 0]
    /\ pc' = "tpobject"
    /\ field' = 1
    /\ val8s' = <<>>
    /\ bus' = <<>>
    /\ UNCHANGED <<revision, address, connected, ret, eeprom, val8h, depth>>
    /\ UNCHANGED mlxVars
    /\ UNCHANGED tmp007Vars

\* ReadRawTPObject(): one ReadByteData; a failed one returns 0 and its error,
\* the third one returns tpObjectRaw
ReadTPObjectByte ==
    /\ pc = "tpobject"
    /\ \E ok \in BOOLEAN, val8 \in TPObjectAnswers(field) :
          LET v == IF ok THEN val8 ELSE 0
          IN /\ bus' = Append(bus, BusWriteRec("ReadByteData",
                                       TPObjectReads[field].reg, v, <<>>, ok))
             /\ IF ~ok
                THEN /\ Return(Ret("ReadRawTPObject", TPObjectReads[field].name, 0, <<>>))
                     /\ UNCHANGED <<field, val8s>>
                ELSE IF field < Len(TPObjectReads)
                THEN /\ val8s' = Append(val8s, v)
                     /\ field' = field + 1
                     /\ UNCHANGED <<pc, ret>>
                ELSE /\ Return(Ret("none", "none",
                                   TPObjectRaw(val8s[1], val8s[2], v), <<>>))
                     /\ UNCHANGED <<field, val8s>>
    /\ UNCHANGED <<revision, address, connected, op, eeprom, val8h, depth>>
    /\ UNCHANGED mlxVars
    /\ UNCHANGED tmp007Vars

\* CalculateTPAmbientC() is called on a started driver
CalculateTPAmbientCCall ==
    /\ pc = "idle"
    /\ revision = "calipile"
    /\ connected
    /\ op' = [name |-> "CalculateTPAmbientC", a |-> 0, b |-> 0]
    /\ pc' = "ambientC"
    /\ depth' = 1
    /\ bus' = <<>>
    /\ UNCHANGED <<revision, address, connected, ret, eeprom, field, val8h, val8s>>
    /\ UNCHANGED mlxVars
    /\ UNCHANGED tmp007Vars

\* CalculateTPAmbientC(): its first statement, tpAmbient, err =
\* d.CalculateTPAmbientC(), is a call of itself; each call puts one more frame
\* on the stack, and when the stack is full the runtime ends the program with
\* "fatal error: stack overflow"
CalculateTPAmbientCCallsItself ==
    /\ pc = "ambientC"
    /\ IF depth < MaxDepth
       THEN depth' = depth + 1 /\ UNCHANGED pc
       ELSE pc' = "fatal" /\ UNCHANGED depth
    /\ UNCHANGED <<revision, address, connected, op, ret, bus, eeprom, field,
                   val8h, val8s>>
    /\ UNCHANGED mlxVars
    /\ UNCHANGED tmp007Vars

---------------------------------------------------------------------------
(* The TMP007 driver *)

\* the register a TMP007 call reads
Tmp007RegOf(o) ==
    CASE o.name = "Tmp007Start" -> tmp007RegisterDeviceID
      [] o.name = "ReadDieTempC" -> tmp007RegisterTDie
      [] o.name = "ReadObjTempC" -> tmp007RegisterTObj
      [] o.name = "ReadSensorVoltage" -> tmp007RegisterVSensor
      [] OTHER -> tmp007RegisterStatus

\* the bytes a register of the TMP007 can deliver
Tmp007Answers(reg) ==
    IF reg = tmp007RegisterDeviceID THEN {ByteSamples[1], tmp007DeviceID} ELSE Bytes

\* what one d.connection.Read(buf) with a 2-byte buf can do: fail (nothing
\* read), read nothing or one byte without an error, or deliver both bytes
Tmp007ReadOutcomes ==
    LET data == Tmp007Answers(Tmp007RegOf(op))
    IN {[n |-> 0, e |-> TRUE, b |-> <<>>], [n |-> 0, e |-> FALSE, b |-> <<>>]}
       \cup {[n |-> 1, e |-> FALSE, b |-> <<b0>>] : b0 \in data}
       \cup {[n |-> 2, e |-> FALSE, b |-> <<b0, b1>>] : b0 \in data, b1 \in data}

\* Read(buf) fills the first bytes of the 2-byte buf
Tmp007CopyInto(old, b) == [i \in 1..2 |-> IF i <= Len(b) THEN b[i] ELSE old[i]]

\* read(): the attempts it makes; its earlier revision calls Read once
Tmp007Retries(rev) == IF rev = "tmp007" THEN numRetriesTmp007 ELSE 1

\* read(): if bytesRead == n && err == nil { break }
Tmp007BreakLoop(bytesRead, n, e) == bytesRead = n /\ ~e

\* read(): what it returns after its last Read. tmp007.go returns buf, err:
\* the buffer as it is and the error of the last attempt; the earlier
\* revision returns nil, err unless that Read was full and free of error
Tmp007ReadResult(rev, b, bytesRead, e) ==
    IF rev = "tmp007" THEN [b |-> b, e |-> e]
    ELSE IF bytesRead # 2 \/ e THEN [b |-> <<>>, e |-> e]
    ELSE [b |-> b, e |-> FALSE]

\* uint16(b[0])<<8 | uint16(b[1]), and binary.Read(buf, binary.BigEndian, ...)
Tmp007Word(b) == BitOr(b[1] * 256, b[2])

\* nDVtoBool(raw int16): (raw & 0x01) != 0 is not valid
nDVtoBool(raw) == ~(raw % 2 # 0)

\* raw >> 2 on an int16: the arithmetic shift
ShiftRight2(raw) == raw \div 4

\* a WaitOnConversionReady() that returns after any status read without error
ConversionReadyOnAnyRead(s, e) == ~e

\* WaitOnConversionReady(): ((tmp007MaskCRTEN & s) != 0) && err == nil
ConversionReady(s, e) == BitAnd(tmp007MaskCRTEN, s) # 0 /\ ~e

\* a TMP007 call begins with read(): its locals are fresh
Tmp007Enter(name) ==
    /\ pc = "idle"
    /\ op' = [name |-> name, a |-> 0, b |-> 0]
    /\ bus' = <<>>
    /\ ret' = NoRet
    /\ pc' = "t_cmd"
    /\ NoRead
    /\ UNCHANGED <<revision, address, didrid>>
    /\ UNCHANGED mlxCallVars
    /\ UNCHANGED calipileVars

\* Start(): GetConnection, then initialization(), which begins with
\* d.read(tmp007RegisterDeviceID, 2)
Tmp007Start ==
    /\ pc = "idle"
    /\ revision \in {"tmp007", "tmp007old"}
    /\ ~connected
    /\ op' = [name |-> "Tmp007Start", a |-> 0, b |-> 0]
    /\ bus' = <<>>
    /\ NoRead
    /\ \E ok \in BOOLEAN :
          /\ connected' = ok
          /\ IF ok THEN pc' = "t_cmd" /\ ret' = NoRet
             ELSE Return(Ret("connect", "connect", 0, <<>>))
    /\ UNCHANGED <<revision, address, didrid>>
    /\ UNCHANGED mlxCallVars
    /\ UNCHANGED calipileVars

\* ReadDieTempC(), ReadObjTempC(), ReadSensorVoltage() on a started driver
Tmp007ReadCall ==
    /\ revision \in {"tmp007", "tmp007old"}
    /\ connected
    /\ \E name \in {"ReadDieTempC", "ReadObjTempC", "ReadSensorVoltage"} :
          Tmp007Enter(name)
    /\ UNCHANGED connected

\* ReadStatus() on a started driver
ReadStatusCall ==
    /\ revision = "tmp007"
    /\ connected
    /\ Tmp007Enter("ReadStatus")
    /\ UNCHANGED connected

\* WaitOnConversionReady() on a started driver: its first ReadStatus()
WaitOnConversionReadyCall ==
    /\ revision = "tmp007"
    /\ connected
    /\ Tmp007Enter("WaitOnConversionReady")
    /\ UNCHANGED connected

\* read() has returned b (<<>> is nil) and the error e to its caller, which
\* works on to its return, or to its next step
Tmp007AfterRead(b, e) ==
    LET raw == Int16(Tmp007Word(b))
    IN CASE op.name = "Tmp007Start" /\ revision = "tmp007" ->
              IF e THEN Return(Ret("read", "transport", 0, <<>>)) /\ UNCHANGED <<didrid, val16>>
              ELSE /\ didrid' = Tmp007Word(b)
                   /\ UNCHANGED val16
                   /\ IF Tmp007Word(b) # tmp007DeviceID
                      THEN Return(Ret("check", "not detected", 0, <<>>))
                      ELSE pc' = "t_config" /\ UNCHANGED ret
         [] op.name = "Tmp007Start" /\ revision = "tmp007old" ->
              /\ didrid' = IF e \/ b = <<>> THEN didrid ELSE Tmp007Word(b)
              /\ UNCHANGED val16
              /\ Return(IF e THEN Ret("read", "transport", 0, <<>>) ELSE NoRet)
         [] op.name \in {"ReadDieTempC", "ReadObjTempC"} /\ revision = "tmp007" ->
              /\ UNCHANGED <<didrid, val16>>
              /\ IF e THEN Return(Ret("read", "transport", 0, <<>>))
                 ELSE IF ~nDVtoBool(raw) THEN Return(Ret("valid", "nDV", 0, <<>>))
                 ELSE Return(Ret("none", "none", ShiftRight2(raw), <<>>))
         [] op.name \in {"ReadDieTempC", "ReadObjTempC"} /\ revision = "tmp007old" ->
              /\ UNCHANGED <<didrid, val16>>
              /\ IF b = <<>> THEN pc' = "fatal" /\ ret' = Ret("index", "panic", 0, <<>>)
                 ELSE Return(Ret("none", "none", ShiftRight2(raw), <<>>))
         [] op.name = "ReadSensorVoltage" /\ revision = "tmp007" ->
              /\ UNCHANGED <<didrid, val16>>
              /\ IF e THEN Return(Ret("read", "transport", 0, <<>>))
                 ELSE Return(Ret("none", "none", raw, <<>>))
         [] op.name = "ReadSensorVoltage" /\ revision = "tmp007old" ->
              /\ UNCHANGED <<didrid, val16>>
              /\ IF b = <<>> THEN pc' = "fatal" /\ ret' = Ret("index", "panic", 0, <<>>)
                 ELSE Return(Ret("none", "none", raw, <<>>))
         [] op.name = "ReadStatus" ->
              /\ UNCHANGED <<didrid, val16>>
              /\ IF e THEN Return(Ret("read", "transport", 0, <<>>))
                 ELSE Return(Ret("none", "none", Tmp007Word(b), <<>>))
         [] op.name = "WaitOnConversionReady" ->
              LET s == IF e THEN 0 ELSE Tmp007Word(b)
              IN /\ UNCHANGED didrid
                 /\ val16' = s
                 /\ IF ConversionReady(s, e) THEN Return(NoRet)
                    ELSE pc' = "t_sleep" /\ UNCHANGED ret

\* read(): d.connection.Write([]byte{address}); its failure returns nil, err
Tmp007SendCommand ==
    /\ pc = "t_cmd"
    /\ \E ok \in BOOLEAN :
          /\ bus' = Append(bus, BusWriteRec("Write", Tmp007RegOf(op), 0,
                                            <<Tmp007RegOf(op)>>, ok))
          /\ err' = ~ok
          /\ IF ok
             THEN /\ pc' = "t_loop"
                  /\ buf' = <<0, 0>>
                  /\ numRetries' = Tmp007Retries(revision)
                  /\ UNCHANGED <<ret, didrid, val16>>
             ELSE /\ Tmp007AfterRead(<<>>, TRUE)
                  /\ UNCHANGED <<numRetries, buf>>
    /\ UNCHANGED <<revision, address, connected, op, nReads, fullAt>>
    /\ UNCHANGED mlxCallVars
    /\ UNCHANGED calipileVars

\* read(): one d.connection.Read(buf), and the return of read() after the
\* last one
Tmp007ReadAttempt ==
    /\ pc = "t_loop"
    /\ numRetries > 0
    /\ \E o \in Tmp007ReadOutcomes :
          LET nb == Tmp007CopyInto(buf, o.b)
              brk == Tmp007BreakLoop(o.n, 2, o.e)
              nr == IF brk /\ revision = "tmp007" THEN numRetries ELSE numRetries - 1
              r == Tmp007ReadResult(revision, nb, o.n, o.e)
          IN /\ buf' = nb
             /\ err' = o.e
             /\ numRetries' = nr
             /\ nReads' = nReads + 1
             /\ fullAt' = IF o.n = 2 /\ ~o.e THEN nReads + 1 ELSE fullAt
             /\ IF brk \/ nr = 0
                THEN Tmp007AfterRead(r.b, r.e)
                ELSE UNCHANGED <<pc, ret, didrid, val16>>
    /\ UNCHANGED <<revision, address, connected, op, bus>>
    /\ UNCHANGED mlxCallVars
    /\ UNCHANGED calipileVars

\* write(): WriteBlockData(address, b) with b the two bytes of data, high
\* byte first. initialization() writes the config register, returns its
\* error, and returns what the write of the status mask returns
Tmp007Write ==
    /\ pc \in {"t_config", "t_mask"}
    /\ \E ok \in BOOLEAN :
          LET reg == IF pc = "t_config" THEN tmp007RegisterConfig
                     ELSE tmp007RegisterStatusMask
              data == IF pc = "t_config" THEN tmp007ConfigConvEN ELSE tmp007MaskCRTEN
          IN /\ bus' = Append(bus, BusWriteRec("WriteBlockData", reg, data,
                                       <<data \div 256, data % 256>>, ok))
             /\ IF ~ok THEN Return(Ret("write", "transport", 0, <<>>))
                ELSE IF pc = "t_config" THEN pc' = "t_mask" /\ UNCHANGED ret
                ELSE Return(NoRet)
    /\ UNCHANGED <<revision, address, connected, op, didrid>>
    /\ UNCHANGED mlxVars
    /\ UNCHANGED calipileVars

\* WaitOnConversionReady(): time.Sleep(65 * time.Millisecond), then the next
\* turn of its loop, which calls ReadStatus() again
Tmp007Sleep ==
    /\ pc = "t_sleep"
    /\ pc' = "t_cmd"
    /\ bus' = <<>>
    /\ NoRead
    /\ UNCHANGED <<revision, address, connected, op, ret, didrid>>
    /\ UNCHANGED mlxCallVars
    /\ UNCHANGED calipileVars

---------------------------------------------------------------------------
\* the caller has the result and may call again: the call's frame is gone
NextCall ==
    /\ pc = "done"
    /\ pc' = "idle"
    /\ op' = [name |-> "none", a |-> 0, b |-> 0]
    /\ ret' = NoRet
    /\ bus' = <<>>
    /\ config' = 0
    /\ wdata' = 0
    /\ tSet' = 0
    /\ part' = 0
    /\ id64' = <<>>
    /\ NoRead
    /\ field' = 0
    /\ val8h' = 0
    /\ val8s' = <<>>
    /\ depth' = 0
    /\ UNCHANGED <<revision, address, connected, eeprom>>
    /\ UNCHANGED tmp007Vars

Next ==
    \/ Start
    \/ ReadCall
    \/ ReadUint16Call
    \/ ReadAddressCall
    \/ ReadTObjRawCall
    \/ ReadIDCall
    \/ ConvertRawTempCall
    \/ WriteCall
    \/ WriteEEPROMCall
    \/ WriteAddressCall
    \/ WriteFilterConfigCall
    \/ SendCommand
    \/ ReadAttempt
    \/ ReadWordAttempt
    \/ BusWrite
    \/ CalipileStart
    \/ GeneralCall
    \/ OpenConnection
    \/ EnableEEPROM
    \/ ReadField
    \/ DisableEEPROM
    \/ ReadRawTPObjectCall
    \/ ReadTPObjectByte
    \/ CalculateTPAmbientCCall
    \/ CalculateTPAmbientCCallsItself
    \/ Tmp007Start
    \/ Tmp007ReadCall
    \/ ReadStatusCall
    \/ WaitOnConversionReadyCall
    \/ Tmp007SendCommand
    \/ Tmp007ReadAttempt
    \/ Tmp007Write
    \/ Tmp007Sleep
    \/ NextCall

Spec == Init /\ [][Next]_vars

---------------------------------------------------------------------------
(* What the properties below speak of *)

\* the data writes (not the command writes of read()) a call has issued
DataWrites == SelectSeq(bus, LAMBDA w : w.kind \in {"WriteBlockData", "WriteWordData"})
\* the command writes of the read() in progress (ReadID() calls read() four
\* times, each time with another register)
ReadRegister ==
    IF op.name = "ReadID" /\ part > 3 THEN ReadIDRegister(3) ELSE RegOf(op)
CommandWrites == SelectSeq(bus, LAMBDA w : w.kind = "Write" /\ w.reg = ReadRegister)

\* bit i of x
Bit(x, i) == (x \div (2 ^ i)) % 2

\* the standard CRC-8, polynomial x^8+x^2+x+1 (0x07), MSB first, no reflection:
\* the bit shifted out decides the XOR
RECURSIVE StandardCrc8Bits(_, _)
StandardCrc8Bits(data, i) ==
    IF i >= 8 THEN data
    ELSE StandardCrc8Bits(IF data >= 128 THEN BitXor(Uint8(data * 2), 7)
                                         ELSE Uint8(data * 2), i + 1)

StandardCrc8Table == [data \in 0..255 |-> StandardCrc8Bits(data, 0)]

\* the standard CRC-8 of a byte sequence, initial value 0
StandardCrc8(bytes) ==
    LET step[k \in 0..Len(bytes)] ==
            IF k = 0 THEN 0 ELSE StandardCrc8Table[BitXor(step[k - 1], bytes[k])]
    IN step[Len(bytes)]

\* crc8ccitt folded over a byte sequence, initial value 0
DriverCrc8(bytes) ==
    LET step[k \in 0..Len(bytes)] ==
            IF k = 0 THEN 0 ELSE crc8ccitt(step[k - 1], bytes[k])
    IN step[Len(bytes)]

IsReadCall == op.name \in {"read", "readUint16", "ReadAddress", "Start"}
\* the driver that runs is one of the two revisions of the MLX90614 driver
IsMlx == revision \in {"pec", "word"}
IsEepromCall == op.name \in {"writeEEPROM", "WriteAddress", "WriteFilterConfig"}

---------------------------------------------------------------------------
(* C1: the PEC byte that write() puts in its packet is the standard CRC-8
   (polynomial 0x07, initial value 0, MSB first) of the four bytes
   [(address<<1) mod 256, register, data low byte, data high byte]. *)
C1_WritePecIsStandardCrc8 ==
    \A i \in 1..Len(bus) :
        (IsMlx /\ bus[i].kind = "WriteBlockData") =>
            bus[i].block[4] =
                StandardCrc8(<<Uint8(address * 2), bus[i].block[1],
                               bus[i].block[2], bus[i].block[3]>>)

(* C2: read() returns data bytes only if the third byte of the response is the
   PEC recomputed over [(address<<1), register, (address<<1)+1, data low, data
   high]; for a response whose PEC byte differs it returns an error and no data. *)
C2_ReadReturnsOnlyCheckedData ==
    (pc = "done" /\ revision = "pec" /\ op.name = "read") =>
        LET pec == DriverCrc8(<<Uint8(address * 2), op.a, Uint8(Uint8(address * 2) + 1),
                                buf[1], buf[2]>>)
        IN /\ ret.err = "none" => (ret.bytes = buf /\ buf[3] = pec)
           /\ (CommandWrites[1].ok /\ ~err /\ buf[3] # pec) =>
                 (ret.err = "pec" /\ ret.bytes = <<>>)

C2_Witness ==
    /\ pc = "done" /\ revision = "pec" /\ op.name = "read"
    /\ fullAt > 0
    /\ ret.err = "pec"
    /\ ret.bytes = <<>>

(* C3: PEC round trip: the packet (data low, data high, PEC) that write() builds
   is accepted by the PEC check of read() for the same address and register, and
   readUint16 decodes it to the data that was written. *)
C3_PecRoundTrip ==
    \A i \in 1..Len(bus) :
        (IsMlx /\ bus[i].kind = "WriteBlockData") =>
            LET packet == <<bus[i].block[2], bus[i].block[3], bus[i].block[4]>>
            IN /\ PecAccepts(address, bus[i].reg, packet)
               /\ DecodeUint16(packet) = bus[i].data

(* C4: in writeEEPROM the write of the real data is issued only after a write of
   0x0000 to the same register has been issued and has succeeded; no data write
   happens without that erase before it. *)
C4_EraseBeforeWrite ==
    IsEepromCall =>
        /\ Len(DataWrites) <= 2
        /\ Len(DataWrites) >= 1 =>
              (DataWrites[1].data = 0 /\ DataWrites[1].reg = RegOf(op))
        /\ Len(DataWrites) = 2 =>
              /\ DataWrites[1].ok
              /\ DataWrites[2].reg = DataWrites[1].reg
              /\ DataWrites[2].data = wdata

C4_Witness ==
    /\ pc = "done" /\ op.name = "writeEEPROM"
    /\ Len(DataWrites) = 2
    /\ DataWrites[1].ok /\ DataWrites[1].data = 0
    /\ DataWrites[2].data # 0

(* C5: every write path refuses a write to a protected calibration register
   (KE 0x24, 0x19, 0x0F) before any bus transaction, so no write to one of
   those registers is ever put on the bus. *)
C5_NoWriteToProtectedRegister ==
    \A i \in 1..Len(bus) :
        bus[i].kind \in {"WriteBlockData", "WriteWordData"} =>
            bus[i].reg \notin {36, 25, 15}

(* C6: Start() returns nil only if the connection opened, the read of the address
   register completed without error and the address read back is the configured
   one; a failed connection, a failed command write, reads that all fail, or an
   answer with another address make Start() return an error. *)
C6_StartVerifiesAddress ==
    (pc = "done" /\ op.name = "Start") =>
        LET addr8 == IF revision = "pec" THEN (buf[1] * 256 + buf[2]) % 256
                                         ELSE val16 % 256
            cmdFailed == Len(CommandWrites) = 1 /\ ~CommandWrites[1].ok
        IN /\ ret.err = "none" =>
                 (connected /\ ~cmdFailed /\ ~err /\ nReads >= 1 /\ addr8 = address)
           /\ ~connected => (ret.err = "connect" /\ bus = <<>> /\ nReads = 0)
           /\ cmdFailed => ret.err = "cmd"
           /\ (connected /\ ~cmdFailed /\ fullAt = 0 /\ err) => ret.err = "transport"
           /\ (fullAt # 0 /\ addr8 # address) => ret.err \in {"pec", "mismatch"}

C6_Witness ==
    /\ pc = "done" /\ op.name = "Start"
    /\ connected /\ fullAt # 0
    /\ ret.err = "mismatch"

(* C7: read() never retries on a checksum mismatch: once a Read attempt has
   delivered a full error-free response no further Read is issued in that call,
   and a PEC mismatch is reported as an error of its own, apart from a
   transport failure. *)
C7_NoRetryOnPecMismatch ==
    revision = "pec" =>
        /\ fullAt # 0 => (pc # "loop" /\ nReads = fullAt)
        /\ (pc = "done" /\ IsReadCall) =>
              LET pec == DriverCrc8(<<Uint8(address * 2), RegOf(op),
                                      Uint8(Uint8(address * 2) + 1), buf[1], buf[2]>>)
              IN /\ (fullAt # 0 /\ buf[3] # pec) => ret.err = "pec"
                 /\ ret.err = "pec" => ~err
                 /\ ret.err = "transport" => err

C7_Witness ==
    /\ pc = "done" /\ revision = "pec" /\ op.name = "readUint16"
    /\ ret.err = "pec"
    /\ fullAt = 2 /\ nReads = 2

(* C8: every read() ends after one command write and at most 50 Read attempts
   (no command write and at most 10 ReadWordData attempts in revision "word"),
   stopping at the first successful attempt; a failed command write means no Read
   at all, and attempts that all fail with a transport error mean an error. *)
C8_ReadIsBounded ==
  IsMlx =>
    /\ nReads <= (IF revision = "pec" THEN 50 ELSE 10)
    /\ Len(CommandWrites) <= 1
    /\ revision = "word" => Len(CommandWrites) = 0
    /\ fullAt # 0 => (nReads = fullAt /\ pc # "loop")
    /\ (revision = "pec" /\ (pc = "loop" \/ nReads > 0)) =>
          (Len(CommandWrites) = 1 /\ CommandWrites[1].ok)
    /\ (pc = "done" /\ IsReadCall /\ connected) =>
          /\ revision = "pec" => Len(CommandWrites) = 1
          /\ (revision = "pec" /\ ~CommandWrites[1].ok) =>
                (nReads = 0 /\ ret.err = "cmd")
          /\ (nReads > 0 /\ fullAt = 0 /\ err) =>
                (ret.err = "transport"
                 /\ nReads = (IF revision = "pec" THEN 50 ELSE 10))

C8_Witness ==
    /\ pc = "done" /\ revision = "pec" /\ op.name = "read"
    /\ nReads = 50 /\ fullAt = 0
    /\ ret.err = "transport"

(* C9: out-of-range arguments are refused before any bus activity:
   WriteFilterConfig(fir, iir) returns an error with no bus read or write exactly
   when fir < 4, fir > 7 or iir > 7, and WriteAddress(a) exactly when a <= 0x07
   or a >= 0x78. *)
C9_RangeCheckedBeforeBus ==
    LET firstArgs == op.name = "WriteFilterConfig" /\ (op.a < 4 \/ op.a > 7 \/ op.b > 7)
        addrArg == op.name = "WriteAddress" /\ (op.a <= 7 \/ op.a >= 120)
    IN op.name \in {"WriteFilterConfig", "WriteAddress"} =>
          /\ (firstArgs \/ addrArg) =>
                (pc = "done" /\ ret.err = "range" /\ bus = <<>> /\ nReads = 0)
          /\ ~(firstArgs \/ addrArg) =>
                /\ ret.err # "range"
                /\ pc = "done" => (bus # <<>> \/ nReads > 0)

C9_Witness ==
    /\ pc = "done" /\ op.name = "WriteFilterConfig"
    /\ op.a = 3 /\ op.b = 0
    /\ ret.err = "range" /\ bus = <<>> /\ nReads = 0

(* C10: the word WriteFilterConfig writes as the new cell content has every bit
   outside the FIR field (bits 10..8) and the IIR field (bits 2..0) equal to that
   bit of the config word read; guard bits 14..11, 7, 6 and 3 are never altered. *)
C10_OtherBitsPreserved ==
    op.name = "WriteFilterConfig" =>
        \A i \in (0..15) \ {0, 1, 2, 8, 9, 10} :
            /\ Bit(wdata, i) = Bit(config, i)
            /\ Len(DataWrites) = 2 => Bit(DataWrites[2].data, i) = Bit(config, i)

C10_Witness ==
    /\ pc = "done" /\ op.name = "WriteFilterConfig"
    /\ Len(DataWrites) = 2 /\ DataWrites[2].ok
    /\ Bit(config, 14) = 1 /\ Bit(config, 6) = 1 /\ Bit(config, 3) = 1
    /\ DataWrites[2].data # config

(* C11: the word WriteFilterConfig writes as the new cell content has bits 10..8
   equal to the requested fir and bits 2..0 equal to the requested iir, whatever
   FIR and IIR bits the config word read held before. *)
C11_FilterFieldsAreTheRequested ==
    (op.name = "WriteFilterConfig" /\ Len(DataWrites) = 2) =>
        /\ (DataWrites[2].data \div 256) % 8 = op.a
        /\ DataWrites[2].data % 8 = op.b

\* the tables of the settling-time formula: FIR in thousandths, IIR
FirTable == [f \in 4..7 |-> <<5184, 9280, 17472, 33856>>[f - 3]]
IirTable == [k \in 0..7 |-> <<10, 10, 10, 10, 1, 4, 8, 9>>[k + 1]]

(* C12: after a successful config read WriteFilterConfig returns
   tSet = 9.719 + I*(F+5.26) + I*(F+12.542) + dual*I*(F+12.542), with F and I the
   table values of the requested fir and iir and dual bit 6 of the config read
   (in thousandths of a millisecond), whether the EEPROM write succeeds or not. *)
C12_SettlingTimeOfRequestedFilter ==
    (pc = "done" /\ op.name = "WriteFilterConfig" /\ Len(DataWrites) >= 1) =>
        LET F == FirTable[op.a]
            I == IirTable[op.b]
            dual == Bit(config, 6)
        IN ret.val = 9719 + I * (F + 5260) + I * (F + 12542) + dual * I * (F + 12542)

\* the read() of the call that has returned delivered a response that passed
ReadSucceeded ==
    /\ fullAt # 0
    /\ revision = "pec" =>
          buf[3] = DriverCrc8(<<Uint8(address * 2), RegOf(op),
                                Uint8(Uint8(address * 2) + 1), buf[1], buf[2]>>)

\* the raw value of that response, as readUint16 (revision "pec") or
\* ReadWordData (revision "word") delivered it
RawRead == IF revision = "pec" THEN buf[1] * 256 + buf[2] ELSE val16

(* C13: ReadTObj1Raw and ReadTObj2Raw return an error and the value 0 for every
   successfully read raw value with bit 15 set, and the raw value unchanged with
   a nil error for every successfully read raw value with bit 15 clear. *)
C13_FlaggedReadingIsAnError ==
    (pc = "done" /\ op.name \in {"ReadTObj1Raw", "ReadTObj2Raw"} /\ ReadSucceeded) =>
        /\ Bit(RawRead, 15) = 1 => (ret.err = "flag" /\ ret.val = 0)
        /\ Bit(RawRead, 15) = 0 => (ret.err = "none" /\ ret.val = RawRead)

C13_Witness ==
    /\ pc = "done" /\ op.name = "ReadTObj2Raw" /\ ReadSucceeded
    /\ Bit(RawRead, 15) = 1
    /\ ret.err = "flag" /\ ret.val = 0

(* C14: for every raw value the conversions agree with degK = raw x 0.02, raw
   taken as unsigned: degC = degK - 273.15 and degF = (degK - 273.15) x 9/5 + 32
   (in units of 1/500 degree). *)
C14_ConversionsAgree ==
    (pc = "done" /\ op.name = "ConvertRawTemp") =>
        LET degK == ret.bytes[1]
            degC == ret.bytes[2]
            degF == ret.bytes[3]
        IN /\ degK = op.a * 10
           /\ degC = degK - 136575
           /\ 5 * (degF - 16000) = 9 * (degK - 136575)

(* C15: with the driver at address 0x5A, when the bus answers the read of the
   address register with {0x5A, 0x00, PEC}, PEC the valid read-path PEC of
   those data bytes, ReadAddress returns 0x5A with a nil error. *)
C15_ReadAddressLowByteFirst ==
    (/\ pc = "done" /\ revision = "pec" /\ op.name = "ReadAddress"
     /\ address = 90
     /\ fullAt # 0
     /\ buf = <<90, 0, DriverCrc8(<<180, 46, 181, 90, 0>>)>>) =>
        (ret.err = "none" /\ ret.val = 90)

(* C16: with the default address 0x5A, the answer [0x00, 0x5A, 0xC9] to the
   read of register 0x2E passes the PEC validation (the read-path PEC over
   [0xB4, 0x2E, 0xB5, 0x00, 0x5A] is 0xC9): Start returns nil, and ReadAddress
   after it returns 0x5A with a nil error. *)
C16_TestVectorPassesPecCheck ==
    /\ DriverCrc8(<<180, 46, 181, 0, 90>>) = 201
    /\ (/\ pc = "done" /\ revision = "pec" /\ op.name \in {"Start", "ReadAddress"}
        /\ address = 90
        /\ connected
        /\ fullAt # 0
        /\ buf = <<0, 90, 201>>) =>
           /\ ret.err = "none"
           /\ op.name = "ReadAddress" => ret.val = 90

C16_Witness ==
    /\ pc = "done" /\ revision = "pec" /\ op.name = "ReadAddress"
    /\ address = 90 /\ connected
    /\ buf = <<0, 90, 201>>
    /\ ret.err = "none" /\ ret.val = 90

\* all the command writes of a call, in order
AllCommandWrites == SelectSeq(bus, LAMBDA w : w.kind = "Write")

(* C17: ReadID reads registers 0x3C, 0x3D, 0x3E, 0x3F in that order; each part
   it takes is the first two bytes of a response that passed the PEC check,
   appended to the parts before it; with all four read it returns exactly these
   8 bytes; when the read of part i fails it returns an error and no read of a
   later part is issued. *)
C17_ReadIDReadsFourPartsInOrder ==
    [][ op'.name = "ReadID" =>
          /\ Len(AllCommandWrites') <= 4
          /\ \A k \in 1..Len(AllCommandWrites') :
                /\ AllCommandWrites'[k].reg = 60 + (k - 1)
                /\ k < Len(AllCommandWrites') => AllCommandWrites'[k].ok
          /\ Len(id64') = 2 * part'
          /\ (op.name = "ReadID" /\ id64' # id64) =>
                /\ id64' = id64 \o <<buf'[1], buf'[2]>>
                /\ buf'[3] = DriverCrc8(<<Uint8(address * 2), 60 + part,
                                          Uint8(Uint8(address * 2) + 1),
                                          buf'[1], buf'[2]>>)
                /\ Len(AllCommandWrites') = part'
          /\ pc' = "done" =>
                /\ ret'.err = "none" =>
                      (part' = 4 /\ Len(ret'.bytes) = 8 /\ ret'.bytes = id64')
                /\ ret'.err # "none" =>
                      (part' < 4 /\ Len(AllCommandWrites') = part' + 1)
                /\ part' < 4 => ret'.err # "none"
      ]_vars

C17_Witness ==
    /\ pc = "done" /\ op.name = "ReadID"
    /\ ret.err = "none"
    /\ Len(ret.bytes) = 8
    /\ ret.bytes[1] # ret.bytes[2] /\ ret.bytes[1] # ret.bytes[3]
    /\ Len(AllCommandWrites) = 4

(* C18 as stated: when the erase write (0x0000) of writeEEPROM fails, the write
   of the real data is still attempted. *)
C18_WriteAttemptedAfterFailedErase ==
    (pc = "done" /\ IsEepromCall /\ Len(DataWrites) >= 1 /\ ~DataWrites[1].ok) =>
        Len(DataWrites) = 2

(* C18, amended: writeEEPROM keeps the order erase, then write; when the erase
   write fails it returns the error of the erase phase and the write of the real
   data is not attempted; when the erase succeeds the write is attempted and its
   failure is returned as the error of the write phase. *)
C18_FailedEraseEndsTheSequence ==
    (pc = "done" /\ IsEepromCall /\ Len(DataWrites) >= 1) =>
        /\ DataWrites[1].data = 0
        /\ ~DataWrites[1].ok =>
              (Len(DataWrites) = 1 /\ ret.phase = "erase" /\ ret.err = "transport")
        /\ DataWrites[1].ok =>
              /\ Len(DataWrites) = 2
              /\ DataWrites[2].ok => ret.err = "none"
              /\ ~DataWrites[2].ok => (ret.phase = "write" /\ ret.err = "transport")

C18_Witness ==
    /\ pc = "done" /\ op.name = "writeEEPROM"
    /\ Len(DataWrites) = 1 /\ ~DataWrites[1].ok
    /\ ret.phase = "erase" /\ ret.err = "transport"

\* the transactions of a CaliPile call on the bus, by kind
FieldReads == SelectSeq(bus, LAMBDA w : w.kind = "ReadByteData")

(* C19 as stated: before the device connection is opened, CaliPile Start() has
   written the value 0x04 to register 0x00 over the connection to address 0x00,
   and that write has succeeded. *)
C19_GeneralCallWritesValue04 ==
    op.name = "CalipileStart" =>
        \A k \in 2..Len(bus) :
            bus[k].kind = "GetConnection" =>
                \E j \in 1..(k - 1) :
                    /\ bus[j].kind = "WriteByteData"
                    /\ bus[j].reg = 0 /\ bus[j].data = 4
                    /\ bus[j].ok

(* C19, amended: before the device connection is opened, CaliPile Start() issues
   the general-call reload command as WriteByteData(0x04, 0x00), register byte
   0x04 and data byte 0x00, over a connection to address 0x00; the device
   connection is never opened before that write has been issued and has
   succeeded. *)
C19_GeneralCallBeforeConnection ==
    op.name = "CalipileStart" =>
        /\ Len(bus) >= 1 => (bus[1].kind = "GetConnection" /\ bus[1].reg = 0)
        /\ Len(bus) >= 2 =>
              /\ bus[1].ok
              /\ bus[2].kind = "WriteByteData" /\ bus[2].reg = 4 /\ bus[2].data = 0
        /\ \A k \in 2..Len(bus) :
              bus[k].kind = "GetConnection" =>
                  (k = 3 /\ bus[k].reg = address /\ bus[2].ok)
        /\ \A k \in 1..Len(bus) :
              (k > 3 \/ bus[k].kind = "ReadByteData") =>
                  (bus[2].ok /\ bus[3].kind = "GetConnection" /\ bus[3].ok)
        /\ (connected /\ pc # "idle") => (Len(bus) >= 3 /\ bus[3].ok)

C19_Witness ==
    /\ op.name = "CalipileStart" /\ pc = "enable"
    /\ connected
    /\ Len(bus) = 3
    /\ bus[2].kind = "WriteByteData" /\ bus[2].ok
    /\ bus[3].kind = "GetConnection" /\ bus[3].reg = address

(* C20: ReadEEPROM reads the fields in the fixed order protocol, slave address,
   lookup number, PTAT25, M, U0, UOut1, TObj1; the first field read that fails
   ends the sequence: ReadEEPROM returns an error that names that field and
   issues no further field read. *)
C20_FirstFailedFieldAborts ==
    op.name = "CalipileStart" =>
        LET order == <<32, 63, 41, 42, 43, 44, 45, 46, 47, 48, 49, 50>>
            names == <<"PROTOCOL", "SLAVE ADD", "LOOKUP#", "PTAT25", "PTAT25", "M",
                       "M", "U0", "U0", "Uout1", "Uout1", "Tobj1">>
            n == Len(FieldReads)
        IN /\ n <= 12
           /\ \A k \in 1..n :
                 /\ FieldReads[k].reg = order[k]
                 /\ k < n => FieldReads[k].ok
           /\ (n >= 1 /\ ~FieldReads[n].ok) =>
                 /\ pc = "done"
                 /\ ret.phase = "ReadEEPROM"
                 /\ ret.err = names[n]
           /\ (pc = "done" /\ ret.phase \in {"none", "check"}) =>
                 (n = 12 /\ FieldReads[n].ok)

C20_Witness ==
    /\ op.name = "CalipileStart" /\ pc = "done"
    /\ Len(FieldReads) = 8
    /\ ~FieldReads[8].ok
    /\ ret.phase = "ReadEEPROM" /\ ret.err = "U0"

\* the writes of a CaliPile call to the EEPROM control register
ControlWrites ==
    SelectSeq(bus, LAMBDA w : w.kind = "WriteByteData" /\ w.reg = 31)

\* ReadEEPROM() has returned, and it returned nil
ReadEEPROMReturned == op.name = "CalipileStart" /\ pc = "done" /\ Len(ControlWrites) >= 1
ReadEEPROMReturnedNil == ReadEEPROMReturned /\ ret.phase \in {"none", "check"}

(* C21: ReadEEPROM swallows no bus error except a failure of the final
   EEPROM-disable write: a failed enable write (0x80 to the control register) or
   a failed field read makes it return a non-nil error; a failure of the disable
   write (0x00) alone does not. *)
C21_OnlyDisableFailureIsSwallowed ==
    ReadEEPROMReturned =>
        /\ ~ControlWrites[1].ok => ~ReadEEPROMReturnedNil
        /\ (\E k \in 1..Len(FieldReads) : ~FieldReads[k].ok) => ~ReadEEPROMReturnedNil
        /\ (/\ ControlWrites[1].ok
            /\ Len(FieldReads) = 12
            /\ \A k \in 1..12 : FieldReads[k].ok) => ReadEEPROMReturnedNil

(* C25: for every 16-bit value R assembled big-endian from the U0 registers (46
   the high byte, 47 the low byte) the U0 that ReadEEPROM stores is R + 32768,
   without wrap-around modulo 2^16, and the UOut1 it stores is twice the 16-bit
   value of its registers. *)
C25_U0IsRegisterPlus32768 ==
    op.name = "CalipileStart" =>
        /\ (Len(FieldReads) >= 9 /\ FieldReads[9].ok) =>
              eeprom.u0 = (FieldReads[8].data * 256 + FieldReads[9].data) + 32768
        /\ (Len(FieldReads) >= 11 /\ FieldReads[11].ok) =>
              eeprom.uOut1 = 2 * (FieldReads[10].data * 256 + FieldReads[11].data)

(* C29: EEPROM read access is never left enabled when ReadEEPROM returns: on
   every return path, success or failure at any field, the last write to the
   control register (31) is the disable value 0x00, issued after the enable
   value 0x80 and after the last field read. *)
C29_EepromAccessDisabledOnReturn ==
    ReadEEPROMReturned =>
        /\ ControlWrites[1].data = 128
        /\ Len(ControlWrites) >= 2
        /\ ControlWrites[Len(ControlWrites)].data = 0
        /\ bus[Len(bus)] = ControlWrites[Len(ControlWrites)]

\* the ReadByteData calls of a ReadRawTPObject()
TPObjectBytes == SelectSeq(bus, LAMBDA w : w.kind = "ReadByteData")

(* C26: for all bytes a, b, c read from CaliPile registers 1, 2 and 3,
   ReadRawTPObject returns a x 512 + b x 2 + (c >> 7): a value below 2^17 to
   which the third register gives its top bit only, so that bits 6..0 of the
   third register never affect the result. *)
C26_TPObjectIsSeventeenBits ==
    (op.name = "ReadRawTPObject" /\ pc = "done" /\ ret.err = "none") =>
        /\ Len(TPObjectBytes) = 3
        /\ \A k \in 1..3 : TPObjectBytes[k].reg = k /\ TPObjectBytes[k].ok
        /\ ret.val = TPObjectBytes[1].data * 512 + TPObjectBytes[2].data * 2
                        + TPObjectBytes[3].data \div 128
        /\ ret.val < 131072
        /\ ret.val % 2 = IF TPObjectBytes[3].data >= 128 THEN 1 ELSE 0
C26_Witness ==
    /\ op.name = "ReadRawTPObject" /\ pc = "done" /\ ret.err = "none"
    /\ TPObjectBytes[1].data = 255
    /\ TPObjectBytes[3].data = 255
    /\ ret.val = 131071

(* C27: CalculateTPAmbientC terminates on every call: it does not call itself,
   and no call of it ends in the runtime's stack overflow; it returns the
   Kelvin value of CalculateTPAmbient minus 273.15 with CalculateTPAmbient's
   error. *)
C27_AmbientCTerminates ==
    op.name = "CalculateTPAmbientC" =>
        /\ depth <= 1
        /\ pc # "fatal"

\* the register writes of TMP007 initialization()
Tmp007Writes == SelectSeq(bus, LAMBDA w : w.kind = "WriteBlockData")
\* read() returned without an error: the command went out, the last Read gave none
Tmp007ReadReturnedNil == Len(bus) >= 1 /\ bus[1].ok /\ ~err
\* a Read of this call delivered both bytes, and they are the device ID 0x0078
Tmp007IdMatches == fullAt > 0 /\ buf = <<0, 120>>

(* C22: ReadDieTempC and ReadObjTempC return an error and never a decoded
   temperature for every successfully read register value whose bit 0 (not new
   data valid) is set; for a value with bit 0 clear they return the value as a
   signed 16-bit number, shifted right arithmetically by 2, times 0.03125
   (here in units of 0.03125 degrees), with a nil error. *)
C22_NotValidDataIsAnError ==
    (/\ op.name \in {"ReadDieTempC", "ReadObjTempC"}
     /\ pc = "done"
     /\ fullAt > 0) =>
        LET v == buf[1] * 256 + buf[2]
            signed == IF v >= 32768 THEN v - 65536 ELSE v
        IN IF v % 2 = 1
           THEN ret.err # "none" /\ ret.val = 0
           ELSE /\ ret.err = "none"
                /\ 4 * ret.val <= signed
                /\ signed < 4 * ret.val + 4

(* C23: TMP007 initialization issues no register write unless the device-ID
   register read back equals 0x0078: on a mismatch Start returns a "not
   detected" error with no write issued; on a match it writes 0x1000 to the
   config register (0x02) and then 0x4000 to the status-mask register (0x05), in
   that order, and does not attempt the second write if the first fails. *)
C23_WritesOnlyAfterIdMatch ==
    (op.name = "Tmp007Start" /\ pc = "done") =>
        /\ Tmp007Writes # <<>> => Tmp007IdMatches
        /\ (Tmp007ReadReturnedNil /\ ~Tmp007IdMatches) =>
              ret.err = "not detected" /\ Tmp007Writes = <<>>
        /\ Tmp007IdMatches =>
              /\ Len(Tmp007Writes) >= 1
              /\ Tmp007Writes[1].reg = 2 /\ Tmp007Writes[1].block = <<16, 0>>
              /\ IF Tmp007Writes[1].ok
                 THEN /\ Len(Tmp007Writes) = 2
                      /\ Tmp007Writes[2].reg = 5 /\ Tmp007Writes[2].block = <<64, 0>>
                 ELSE Len(Tmp007Writes) = 1

(* C24: WaitOnConversionReady returns exactly when a status read succeeds with
   the conversion-ready bit (0x4000) set: the step in which ReadStatus returns
   ends the wait if and only if that read gave no error and a value with the
   bit set; otherwise the wait sleeps, and after the sleep it reads the status
   again, without end as long as no such read occurs. *)
C24_ReturnsExactlyOnConversionReady ==
    [][(op.name = "WaitOnConversionReady" /\ pc # "done") =>
          /\ op'.name = "WaitOnConversionReady"
          /\ pc' \in {"t_cmd", "t_loop", "t_sleep", "done"}
          /\ (pc \in {"t_cmd", "t_loop"} /\ pc' \notin {"t_cmd", "t_loop"}) =>
                /\ (pc' = "done") <=>
                      (~err' /\ (buf'[1] * 256 + buf'[2]) % 32768 >= 16384)
                /\ (pc' # "done") => pc' = "t_sleep"
          /\ (pc = "t_sleep") => pc' = "t_cmd"
          /\ (pc' = "done") => pc = "t_loop"]_vars
C24_Witness ==
    /\ op.name = "WaitOnConversionReady" /\ pc = "done"
    /\ fullAt = 2
    /\ buf = <<90, 0>>

(* C28: the TMP007 register readers (ReadDieTempC, ReadObjTempC,
   ReadSensorVoltage, ReadStatus) return a value with a nil error only if some
   Read attempt of that call delivered the full 2 bytes with no error; when all
   50 attempts are short reads or failures the call returns an error. *)
C28_ValueOnlyFromAFullRead ==
    (/\ op.name \in {"ReadDieTempC", "ReadObjTempC", "ReadSensorVoltage", "ReadStatus"}
     /\ pc = "done") =>
        /\ ret.err = "none" => fullAt > 0
        /\ (nReads = 50 /\ fullAt = 0) => ret.err # "none"

====
